---- MODULE Spec2Model ----
(***************************************************************************)
(* Model of src/symbolize/gimli/parse_running_mmaps_unix.rs:               *)
(*   - MapsEntry::from_str, the parser of one line of /proc/self/maps,     *)
(*   - MapsEntry::ip_matches, the address lookup predicate,                *)
(*   - parse_maps, the loader that parses the file line by line.           *)
(* Text is a sequence of one-character strings.  A Result is a record      *)
(* [ok |-> TRUE, val |-> x] or [ok |-> FALSE, err |-> e], where e is the   *)
(* &'static str the code returns.                                          *)
(***************************************************************************)
EXTENDS Integers, Sequences, FiniteSets, TLC

VARIABLES
    toks,       \* the non-empty, space-free tokens the input line is made of
    s,          \* the input line handed to from_str
    ppc,        \* position of the parser session: "input", "parsed", "queried"
    parsed,     \* the Result returned by from_str
    ip,         \* the address handed to ip_matches
    matched,    \* the value returned by ip_matches
    pc,         \* position of parse_maps: "start", "reading", "done"
    consumed,   \* the lines the BufReader has yielded so far, in file order
    v,          \* the local Vec<MapsEntry> of parse_maps
    result      \* the Result returned by parse_maps

vars == <<toks, s, ppc, parsed, ip, matched, pc, consumed, v, result>>

parserVars == <<toks, s, ppc, parsed, ip, matched>>
loaderVars == <<pc, consumed, v, result>>

----------------------------------------------------------------------------
(* Bounds of the model *)

\* width of usize in bits (the model's machine word)
UsizeBits == 8
\* largest number of extra spaces added to one gap of a line
MaxPad == 1
\* largest number of tokens on a generated line
MaxTokens == 7
\* largest address handed to ip_matches
MaxIp == 4
\* largest number of lines the loader reads from the file
MaxLines == 3

UsizeMax == 2^UsizeBits - 1

----------------------------------------------------------------------------
(* Results *)

Ok(x) == [ok |-> TRUE, val |-> x]
Err(e) == [ok |-> FALSE, err |-> e]
None == [ok |-> FALSE, err |-> "none"]

----------------------------------------------------------------------------
(* Text helpers of the Rust standard library, as the code calls them *)

\* index of the first occurrence of c in str, 0 when there is none
find(str, c) ==
    IF \E i \in 1..Len(str) : str[i] = c
    THEN CHOOSE i \in 1..Len(str) : str[i] = c /\ \A j \in 1..(i - 1) : str[j] # c
    ELSE 0

\* str::split(c): k separators give k+1 fragments, empty ones included
RECURSIVE split(_, _)
split(str, c) ==
    LET i == find(str, c)
    IN IF i = 0 THEN <<str>>
       ELSE <<SubSeq(str, 1, i - 1)>> \o split(SubSeq(str, i + 1, Len(str)), c)

\* str::split_once(c): the text before and after the first c
split_once(str, c) ==
    LET i == find(str, c)
    IN IF i = 0 THEN None
       ELSE Ok(<<SubSeq(str, 1, i - 1), SubSeq(str, i + 1, Len(str))>>)

HexDigits ==
    <<"0", "1", "2", "3", "4", "5", "6", "7", "8", "9", "a", "b", "c", "d", "e", "f">>
UpperHexDigits ==
    <<"0", "1", "2", "3", "4", "5", "6", "7", "8", "9", "A", "B", "C", "D", "E", "F">>

\* char::to_digit(radix): the digit's value, -1 when c is no digit of the radix
to_digit(c, radix) ==
    IF \E d \in 1..radix : HexDigits[d] = c \/ UpperHexDigits[d] = c
    THEN (CHOOSE d \in 1..radix : HexDigits[d] = c \/ UpperHexDigits[d] = c) - 1
    ELSE -1

\* the digit loop of from_str_radix, with checked multiplication and addition
RECURSIVE accumulate(_, _, _)
accumulate(digits, radix, acc) ==
    IF digits = <<>> THEN Ok(acc)
    ELSE LET d == to_digit(Head(digits), radix)
         IN IF d < 0 THEN Err("InvalidDigit")
            ELSE IF acc * radix > UsizeMax THEN Err("PosOverflow")
            ELSE IF acc * radix + d > UsizeMax THEN Err("PosOverflow")
            ELSE accumulate(Tail(digits), radix, acc * radix + d)

\* usize::from_str_radix: empty text and a lone sign are errors, a leading
\* '+' is skipped, a '-' is no digit of an unsigned type
from_str_radix(src, radix) ==
    IF Len(src) = 0 THEN Err("Empty")
    ELSE IF Len(src) = 1 /\ src[1] \in {"+", "-"} THEN Err("InvalidDigit")
    ELSE accumulate(IF src[1] = "+" THEN Tail(src) ELSE src, radix, 0)

----------------------------------------------------------------------------
(* MapsEntry::from_str *)

\* variant of tokens that keeps the empty fragments of repeated spaces
tokens_unfiltered(str) == split(str, " ")

\* s.split(' ').filter(|s| s.len() > 0): the iterator `parts`
tokens(str) == SelectSeq(split(str, " "), LAMBDA frag : Len(frag) > 0)

\* variant of hex that reads the text in base 10
hex_decimal(str) ==
    LET r == from_str_radix(str, 10)
    IN IF r.ok THEN r ELSE Err("couldnt parse hex number")

\* the closure `hex`
hex(str) ==
    LET r == from_str_radix(str, 16)
    IN IF r.ok THEN r ELSE Err("couldnt parse hex number")

\* variant of take_fields that defaults a missing inode to "0"
take_fields_default_inode(parts) ==
    IF Len(parts) < 1 THEN Err("Couldn't find address")
    ELSE IF Len(parts) < 2 THEN Err("Couldn't find permissions")
    ELSE IF Len(parts) < 3 THEN Err("Couldn't find offset")
    ELSE IF Len(parts) < 4 THEN Err("Couldn't find dev")
    ELSE Ok([range_str    |-> parts[1],
             perms_str    |-> parts[2],
             offset_str   |-> parts[3],
             dev_str      |-> parts[4],
             inode_str    |-> IF Len(parts) >= 5 THEN parts[5] ELSE <<"0">>,
             pathname_str |-> IF Len(parts) >= 6 THEN parts[6] ELSE <<>>])

\* variant of take_fields that takes the last token of the line as the pathname
take_fields_last_token(parts) ==
    IF Len(parts) < 1 THEN Err("Couldn't find address")
    ELSE IF Len(parts) < 2 THEN Err("Couldn't find permissions")
    ELSE IF Len(parts) < 3 THEN Err("Couldn't find offset")
    ELSE IF Len(parts) < 4 THEN Err("Couldn't find dev")
    ELSE IF Len(parts) < 5 THEN Err("Couldn't find inode")
    ELSE Ok([range_str    |-> parts[1],
             perms_str    |-> parts[2],
             offset_str   |-> parts[3],
             dev_str      |-> parts[4],
             inode_str    |-> parts[5],
             pathname_str |-> IF Len(parts) >= 6 THEN parts[Len(parts)] ELSE <<>>])

\* the six parts.next() calls: five mandatory fields, then the optional pathname
take_fields(parts) ==
    IF Len(parts) < 1 THEN Err("Couldn't find address")
    ELSE IF Len(parts) < 2 THEN Err("Couldn't find permissions")
    ELSE IF Len(parts) < 3 THEN Err("Couldn't find offset")
    ELSE IF Len(parts) < 4 THEN Err("Couldn't find dev")
    ELSE IF Len(parts) < 5 THEN Err("Couldn't find inode")
    ELSE Ok([range_str    |-> parts[1],
             perms_str    |-> parts[2],
             offset_str   |-> parts[3],
             dev_str      |-> parts[4],
             inode_str    |-> parts[5],
             pathname_str |-> IF Len(parts) >= 6 THEN parts[6] ELSE <<>>])

\* variant of parse_address that reports a bad half as a range error
parse_address_range_error(range_str) ==
    LET halves == split_once(range_str, "-")
    IN IF ~halves.ok THEN Err("Couldn't parse address range")
       ELSE LET start == hex(halves.val[1])
                limit == hex(halves.val[2])
            IN IF ~start.ok THEN Err("Couldn't parse address range")
               ELSE IF ~limit.ok THEN Err("Couldn't parse address range")
               ELSE Ok(<<start.val, limit.val>>)

\* the block computing `address`
parse_address(range_str) ==
    LET halves == split_once(range_str, "-")
    IN IF ~halves.ok THEN Err("Couldn't parse address range")
       ELSE LET start == hex(halves.val[1])
                limit == hex(halves.val[2])
            IN IF ~start.ok THEN start
               ELSE IF ~limit.ok THEN limit
               ELSE Ok(<<start.val, limit.val>>)

\* variant of parse_perms without the check for a fifth character
parse_perms_no_limit(perms_str) ==
    IF Len(perms_str) < 4 THEN Err("insufficient perms")
    ELSE Ok(SubSeq(perms_str, 1, 4))

\* the block computing `perms`: four chars.next(), then one more must be None
parse_perms(perms_str) ==
    IF Len(perms_str) < 4 THEN Err("insufficient perms")
    ELSE IF Len(perms_str) > 4 THEN Err("too many perms")
    ELSE Ok(SubSeq(perms_str, 1, 4))

\* the block computing `dev`
parse_dev(dev_str) ==
    LET halves == split_once(dev_str, ":")
    IN IF ~halves.ok THEN Err("Couldn't parse dev")
       ELSE LET major == hex(halves.val[1])
                minor == hex(halves.val[2])
            IN IF ~major.ok THEN major
               ELSE IF ~minor.ok THEN minor
               ELSE Ok(<<major.val, minor.val>>)

\* variant of build that examines the perms field before the range field
build_perms_first(f) ==
    LET address == parse_address(f.range_str)
        perms   == parse_perms(f.perms_str)
        offset  == hex(f.offset_str)
        dev     == parse_dev(f.dev_str)
        inode   == hex(f.inode_str)
    IN IF ~perms.ok THEN perms
       ELSE IF ~address.ok THEN address
       ELSE IF ~offset.ok THEN offset
       ELSE IF ~dev.ok THEN dev
       ELSE IF ~inode.ok THEN inode
       ELSE Ok([address  |-> address.val,
                perms    |-> perms.val,
                offset   |-> offset.val,
                dev      |-> dev.val,
                inode    |-> inode.val,
                pathname |-> f.pathname_str])

\* the field conversions in the order of the code, each `?` returning early
build(f) ==
    LET address == parse_address(f.range_str)
        perms   == parse_perms(f.perms_str)
        offset  == hex(f.offset_str)
        dev     == parse_dev(f.dev_str)
        inode   == hex(f.inode_str)
    IN IF ~address.ok THEN address
       ELSE IF ~perms.ok THEN perms
       ELSE IF ~offset.ok THEN offset
       ELSE IF ~dev.ok THEN dev
       ELSE IF ~inode.ok THEN inode
       ELSE Ok([address  |-> address.val,
                perms    |-> perms.val,
                offset   |-> offset.val,
                dev      |-> dev.val,
                inode    |-> inode.val,
                pathname |-> f.pathname_str])

from_str(str) ==
    LET f == take_fields(tokens(str))
    IN IF ~f.ok THEN f ELSE build(f.val)

----------------------------------------------------------------------------
(* MapsEntry::ip_matches *)

\* variant of ip_matches with an inclusive limit
ip_matches_inclusive(self, addr) ==
    self.address[1] <= addr /\ addr <= self.address[2]

ip_matches(self, addr) ==
    self.address[1] <= addr /\ addr < self.address[2]

----------------------------------------------------------------------------
(* Input lines: tokens joined by runs of spaces *)

\* "1-3", "0a-1F", "+3-1" (start above limit), "13", "g-1", "1-100"
RangeTokens ==
    { <<"1", "-", "3">>,
      <<"0", "a", "-", "1", "F">>,
      <<"+", "3", "-", "1">>,
      <<"1", "3">>,
      <<"g", "-", "1">>,
      <<"1", "-", "1", "0", "0">> }

\* "r-xp", "0:g-", "rw-", "rwxps"
PermsTokens ==
    { <<"r", "-", "x", "p">>,
      <<"0", ":", "g", "-">>,
      <<"r", "w", "-">>,
      <<"r", "w", "x", "p", "s">> }

\* "10", "g0"
OffsetTokens == { <<"1", "0">>, <<"g", "0">> }

\* "00:00", "1:0b", "00", "0:x"
DevTokens ==
    { <<"0", "0", ":", "0", "0">>,
      <<"1", ":", "0", "b">>,
      <<"0", "0">>,
      <<"0", ":", "x">> }

\* "0", "7d", "-1"
InodeTokens == { <<"0">>, <<"7", "d">>, <<"-", "1">> }

\* "/a", "[h]"
PathTokens == { <<"/", "a">>, <<"[", "h", "]">> }

\* "(d)"
ExtraTokens == { <<"(", "d", ")">> }

\* the candidate texts of the i-th token of a line
FieldTokens(i) ==
    CASE i = 1 -> RangeTokens
      [] i = 2 -> PermsTokens
      [] i = 3 -> OffsetTokens
      [] i = 4 -> DevTokens
      [] i = 5 -> InodeTokens
      [] i = 6 -> PathTokens
      [] OTHER -> ExtraTokens

\* the token sequences of length n
RECURSIVE TokenSeqs(_)
TokenSeqs(n) ==
    IF n = 0 THEN { <<>> }
    ELSE { Append(t, x) : t \in TokenSeqs(n - 1), x \in FieldTokens(n) }

Spaces(n) == [i \in 1..n |-> " "]

\* the tokens from the i-th on, each followed by its gap: one space between
\* tokens, none after the last, and `pad` more in gap number `gap`
RECURSIVE LayoutFrom(_, _, _, _)
LayoutFrom(t, i, gap, pad) ==
    IF i > Len(t) THEN <<>>
    ELSE t[i]
         \o Spaces((IF i < Len(t) THEN 1 ELSE 0) + (IF gap = i THEN pad ELSE 0))
         \o LayoutFrom(t, i + 1, gap, pad)

\* the line made of the tokens t; gap 0 is the one before the first token
Layout(t, gap, pad) ==
    Spaces(IF gap = 0 THEN pad ELSE 0) \o LayoutFrom(t, 1, gap, pad)

----------------------------------------------------------------------------
(* The lines of the file read by parse_maps *)

\* "f0-f1 --xp 00 00:00 0      [v]"
LineVsyscall ==
    <<"f", "0", "-", "f", "1", " ", "-", "-", "x", "p", " ", "0", "0", " ",
      "0", "0", ":", "0", "0", " ", "0", " ", " ", " ", " ", " ", " ",
      "[", "v", "]">>

\* "76-78 rw-p 39 13:06 95   /ld.so"
LineLibrary ==
    <<"7", "6", "-", "7", "8", " ", "r", "w", "-", "p", " ", "3", "9", " ",
      "1", "3", ":", "0", "6", " ", "9", "5", " ", " ", " ",
      "/", "l", "d", ".", "s", "o">>

\* "21-22 rw-p 00 00:00 0"
LineAnonymous ==
    <<"2", "1", "-", "2", "2", " ", "r", "w", "-", "p", " ", "0", "0", " ",
      "0", "0", ":", "0", "0", " ", "0">>

\* "21-22 rw- 00 00:00 0"
LineShortPerms ==
    <<"2", "1", "-", "2", "2", " ", "r", "w", "-", " ", "0", "0", " ",
      "0", "0", ":", "0", "0", " ", "0">>

\* "2z-22 rw-p 00 00:00 0"
LineBadRange ==
    <<"2", "z", "-", "2", "2", " ", "r", "w", "-", "p", " ", "0", "0", " ",
      "0", "0", ":", "0", "0", " ", "0">>

\* the empty line
LineEmpty == <<>>

FileLines ==
    { LineVsyscall, LineLibrary, LineAnonymous, LineShortPerms, LineBadRange,
      LineEmpty }

----------------------------------------------------------------------------
(* parse_maps *)

\* variant of push that inserts the entry at the front
push_front(vec, entry) == <<entry>> \o vec

\* Vec::push
push(vec, entry) == Append(vec, entry)

\* variant of loop_body that skips a line that does not parse
loop_body_skip(vec, line) ==
    LET r == from_str(line)
    IN IF r.ok THEN [returned |-> FALSE, v |-> push(vec, r.val)]
       ELSE [returned |-> FALSE, v |-> vec]

\* v.push(line.parse()?): the entry is pushed, or the error is returned
loop_body(vec, line) ==
    LET r == from_str(line)
    IN IF r.ok THEN [returned |-> FALSE, v |-> push(vec, r.val)]
       ELSE [returned |-> TRUE, result |-> Err(r.err)]

----------------------------------------------------------------------------
(* One parser session: a line is parsed, then the entry is queried *)

Init ==
    /\ toks \in UNION { TokenSeqs(n) : n \in 0..MaxTokens }
    /\ s \in { Layout(toks, gap, pad) : gap \in 0..Len(toks), pad \in 0..MaxPad }
    /\ ppc = "input"
    /\ parsed = None
    /\ ip = 0
    /\ matched = FALSE
    /\ pc = "start"
    /\ consumed = <<>>
    /\ v = <<>>
    /\ result = None

FromStr ==
    /\ ppc = "input"
    /\ parsed' = from_str(s)
    /\ ppc' = "parsed"
    /\ UNCHANGED <<toks, s, ip, matched, loaderVars>>

IpMatches(addr) ==
    /\ ppc = "parsed"
    /\ parsed.ok
    /\ matched' = ip_matches(parsed.val, addr)
    /\ ip' = addr
    /\ ppc' = "queried"
    /\ UNCHANGED <<toks, s, parsed, loaderVars>>

Next ==
    \/ FromStr
    \/ \E addr \in 0..MaxIp : IpMatches(addr)

Spec == Init /\ [][Next]_vars

----------------------------------------------------------------------------
(* One run of parse_maps over a file of at most MaxLines lines *)

InitLoad ==
    /\ toks = <<>>
    /\ s = <<>>
    /\ ppc = "input"
    /\ parsed = None
    /\ ip = 0
    /\ matched = FALSE
    /\ pc = "start"
    /\ consumed = <<>>
    /\ v = <<>>
    /\ result = None

\* File::open fails
OpenFail ==
    /\ pc = "start"
    /\ result' = Err("couldnt open /proc/self/maps")
    /\ pc' = "done"
    /\ UNCHANGED <<consumed, v, parserVars>>

\* File::open succeeds
OpenOk ==
    /\ pc = "start"
    /\ pc' = "reading"
    /\ UNCHANGED <<consumed, v, result, parserVars>>

\* lines() yields an I/O error
ReadLineFail ==
    /\ pc = "reading"
    /\ result' = Err("couldnt read line from /proc/self/maps")
    /\ v' = <<>>
    /\ pc' = "done"
    /\ UNCHANGED <<consumed, parserVars>>

\* lines() yields a line, and the loop body runs on it
ReadLine(line) ==
    /\ pc = "reading"
    /\ Len(consumed) < MaxLines
    /\ consumed' = Append(consumed, line)
    /\ LET step == loop_body(v, line)
       IN IF step.returned
          THEN /\ result' = step.result
               /\ v' = <<>>
               /\ pc' = "done"
          ELSE /\ v' = step.v
               /\ UNCHANGED <<result, pc>>
    /\ UNCHANGED parserVars

\* lines() is exhausted: Ok(v)
EndOfFile ==
    /\ pc = "reading"
    /\ result' = Ok(v)
    /\ v' = <<>>
    /\ pc' = "done"
    /\ UNCHANGED <<consumed, parserVars>>

NextLoad ==
    \/ OpenFail
    \/ OpenOk
    \/ ReadLineFail
    \/ \E line \in FileLines : ReadLine(line)
    \/ EndOfFile

SpecLoad == InitLoad /\ [][NextLoad]_vars

----------------------------------------------------------------------------
(* What the properties say about a line, read off its tokens `toks` *)

\* the number of non-empty space-separated tokens of the line
NumTokens == Len(toks)

\* the pairs <<a, b>> with t = a, sep, b and no sep in a
Halves(t, sep) ==
    { <<SubSeq(t, 1, i - 1), SubSeq(t, i + 1, Len(t))>> :
        i \in { j \in 1..Len(t) : t[j] = sep /\ \A k \in 1..(j - 1) : t[k] # sep } }

HasSep(t, sep) == \E i \in 1..Len(t) : t[i] = sep

\* the digits of a number text, an optional leading '+' left out
DigitsOf(t) == IF Len(t) > 0 /\ t[1] = "+" THEN Tail(t) ELSE t

RECURSIVE Pow16(_)
Pow16(n) == IF n = 0 THEN 1 ELSE 16 * Pow16(n - 1)

\* the positional base-16 value of the digits d[1..n]
RECURSIVE PositionalValue(_, _)
PositionalValue(d, n) ==
    IF n = 0 THEN 0
    ELSE to_digit(d[n], 16) * Pow16(Len(d) - n) + PositionalValue(d, n - 1)

HexValue(t) == PositionalValue(DigitsOf(t), Len(DigitsOf(t)))

\* t is a base-16 unsigned integer that fits the machine word
ValidHex(t) ==
    /\ Len(DigitsOf(t)) > 0
    /\ \A i \in 1..Len(DigitsOf(t)) : to_digit(DigitsOf(t)[i], 16) >= 0
    /\ HexValue(t) <= UsizeMax

\* a pair field (range, dev): a separator and two valid halves
ValidPair(t, sep) == \E h \in Halves(t, sep) : ValidHex(h[1]) /\ ValidHex(h[2])

MissingFieldError(k) ==
    CASE k = 1 -> "Couldn't find address"
      [] k = 2 -> "Couldn't find permissions"
      [] k = 3 -> "Couldn't find offset"
      [] k = 4 -> "Couldn't find dev"
      [] OTHER -> "Couldn't find inode"

InvalidRange == "Couldn't parse address range"
InvalidDev == "Couldn't parse dev"
InvalidHex == "couldnt parse hex number"
InsufficientPerms == "insufficient perms"
TooManyPerms == "too many perms"

\* the defect of the k-th mandatory field with text t, "" when it has none
FieldDefect(k, t) ==
    CASE k = 1 -> IF ~HasSep(t, "-") THEN InvalidRange
                  ELSE IF ~ValidPair(t, "-") THEN InvalidHex ELSE ""
      [] k = 2 -> IF Len(t) < 4 THEN InsufficientPerms
                  ELSE IF Len(t) > 4 THEN TooManyPerms ELSE ""
      [] k = 3 -> IF ~ValidHex(t) THEN InvalidHex ELSE ""
      [] k = 4 -> IF ~HasSep(t, ":") THEN InvalidDev
                  ELSE IF ~ValidPair(t, ":") THEN InvalidHex ELSE ""
      [] OTHER -> IF ~ValidHex(t) THEN InvalidHex ELSE ""

\* the mandatory fields that have a defect
Defective == { k \in 1..5 : FieldDefect(k, toks[k]) # "" }

\* the first of them in the order range, perms, offset, dev, inode
FirstDefective == CHOOSE k \in Defective : \A j \in Defective : k <= j

----------------------------------------------------------------------------
(* Properties of ip_matches and from_str, checked under Spec *)

\* C1: ip_matches(ip) is true if and only if start <= ip and ip < limit; ip
\* equal to start gives true whenever start < limit, and ip equal to limit
\* always gives false.
C1_ContainsIffInRange ==
    ppc = "queried" =>
        LET start == parsed.val.address[1]
            limit == parsed.val.address[2]
        IN /\ matched <=> (start <= ip /\ ip < limit)
           /\ (ip = start /\ start < limit) => matched
           /\ ip = limit => ~matched

C1_Witness ==
    /\ ppc = "queried"
    /\ parsed.val.address[1] < parsed.val.address[2]
    /\ ip = parsed.val.address[2]
    /\ ~matched

\* C2: on success the address range, offset, dev and inode are the base-16
\* values of the corresponding tokens of the line and perms are the 4
\* characters of the perms token in order; none of them is a default.
C2_FieldsAreExactValues ==
    (ppc = "parsed" /\ parsed.ok) =>
        /\ NumTokens >= 5
        /\ \E h \in Halves(toks[1], "-") :
              /\ ValidHex(h[1]) /\ ValidHex(h[2])
              /\ parsed.val.address = <<HexValue(h[1]), HexValue(h[2])>>
        /\ Len(toks[2]) = 4
        /\ parsed.val.perms = toks[2]
        /\ ValidHex(toks[3])
        /\ parsed.val.offset = HexValue(toks[3])
        /\ \E h \in Halves(toks[4], ":") :
              /\ ValidHex(h[1]) /\ ValidHex(h[2])
              /\ parsed.val.dev = <<HexValue(h[1]), HexValue(h[2])>>
        /\ ValidHex(toks[5])
        /\ parsed.val.inode = HexValue(toks[5])

C2_Witness ==
    /\ ppc = "parsed"
    /\ parsed.ok
    /\ parsed.val.address = <<10, 31>>
    /\ parsed.val.perms = <<"r", "-", "x", "p">>
    /\ parsed.val.offset = 16
    /\ parsed.val.dev = <<1, 11>>
    /\ parsed.val.inode = 125

\* C5: a line with fewer than 5 tokens is rejected with the error naming the
\* first absent field in the order address, permissions, offset, dev, inode;
\* a line with exactly 5 tokens is never rejected for a missing field.
C5_MissingFieldNamesFirstAbsent ==
    ppc = "parsed" =>
        /\ NumTokens < 5 => parsed = Err(MissingFieldError(NumTokens + 1))
        /\ NumTokens = 5 =>
              parsed \notin { Err(MissingFieldError(k)) : k \in 1..5 }

C5_Witness ==
    /\ ppc = "parsed"
    /\ NumTokens = 4
    /\ parsed = Err("Couldn't find inode")

\* C6, as stated: with all five mandatory fields present, a range field
\* without '-' and a range field with a half that is no base-16 unsigned
\* integer both fail with the range error.
C6_AsStated ==
    (ppc = "parsed" /\ NumTokens >= 5 /\ ~ValidPair(toks[1], "-")) =>
        parsed = Err(InvalidRange)

\* C6, amended: with all five mandatory fields present, a range field
\* without '-' fails with the range error, and a range field with a '-' and
\* a half that is no base-16 unsigned integer fails with the hex error.
C6_RangeErrors ==
    (ppc = "parsed" /\ NumTokens >= 5) =>
        /\ ~HasSep(toks[1], "-") => parsed = Err(InvalidRange)
        /\ (HasSep(toks[1], "-") /\ ~ValidPair(toks[1], "-")) =>
              parsed = Err(InvalidHex)

C6_Witness ==
    /\ ppc = "parsed"
    /\ NumTokens >= 5
    /\ toks[1] = <<"g", "-", "1">>
    /\ parsed = Err(InvalidHex)

\* C7, as stated: for a line whose range field is valid, a perms field of 1
\* to 3 characters fails with the insufficient-perms error, one of 5 or more
\* with the too-many-perms error, and one of 4 characters is accepted.
C7_AsStated ==
    (ppc = "parsed" /\ NumTokens >= 2 /\ ValidPair(toks[1], "-")) =>
        /\ Len(toks[2]) < 4 => parsed = Err(InsufficientPerms)
        /\ Len(toks[2]) > 4 => parsed = Err(TooManyPerms)
        /\ Len(toks[2]) = 4 =>
              parsed \notin { Err(InsufficientPerms), Err(TooManyPerms) }

\* C7, amended: for a line with all five mandatory fields present and a valid
\* range field, a perms field of 1 to 3 characters fails with the
\* insufficient-perms error, one of 5 or more with the too-many-perms error,
\* and one of 4 characters is accepted whatever the characters are.
C7_PermsLength ==
    (ppc = "parsed" /\ NumTokens >= 5 /\ ValidPair(toks[1], "-")) =>
        /\ Len(toks[2]) < 4 => parsed = Err(InsufficientPerms)
        /\ Len(toks[2]) > 4 => parsed = Err(TooManyPerms)
        /\ Len(toks[2]) = 4 =>
              /\ parsed \notin { Err(InsufficientPerms), Err(TooManyPerms) }
              /\ parsed.ok => parsed.val.perms = toks[2]

C7_Witness ==
    /\ ppc = "parsed"
    /\ NumTokens >= 5
    /\ ValidPair(toks[1], "-")
    /\ toks[2] = <<"0", ":", "g", "-">>
    /\ parsed.ok
    /\ parsed.val.perms = toks[2]

\* C8: on success the pathname is the sixth token of the line, verbatim, or
\* the empty text when the line ends at the inode; tokens after the sixth
\* are ignored, the result being that of the line cut after the sixth.
C8_PathnameIsSixthToken ==
    (ppc = "parsed" /\ parsed.ok) =>
        /\ parsed.val.pathname = IF NumTokens >= 6 THEN toks[6] ELSE <<>>
        /\ NumTokens > 6 => parsed = from_str(Layout(SubSeq(toks, 1, 6), 0, 0))

C8_Witness ==
    /\ ppc = "parsed"
    /\ parsed.ok
    /\ NumTokens = 7
    /\ parsed.val.pathname = <<"[", "h", "]">>

\* C9: the result depends only on the tokens of the line: a line whose
\* separators are runs of spaces splits into the same tokens, and gives the
\* same entry or the same error, as the line with single spaces.
C9_PaddingIsIgnored ==
    ppc = "parsed" =>
        /\ tokens(s) = toks
        /\ parsed = from_str(Layout(toks, 0, 0))

C9_Witness ==
    /\ ppc = "parsed"
    /\ NumTokens = 6
    /\ s = Layout(toks, 5, 1)
    /\ parsed.ok
    /\ parsed.val.pathname = toks[6]

\* C10: exactly one error is reported, by a fixed precedence: a missing
\* mandatory field first, whatever the fields present contain, and then the
\* defect of the first defective field in the order range, perms, offset,
\* dev, inode, whatever the later fields contain.
C10_ErrorPrecedence ==
    ppc = "parsed" =>
        IF NumTokens < 5 THEN parsed = Err(MissingFieldError(NumTokens + 1))
        ELSE IF Defective # {}
             THEN parsed = Err(FieldDefect(FirstDefective, toks[FirstDefective]))
             ELSE parsed.ok

C10_Witness ==
    /\ ppc = "parsed"
    /\ NumTokens = 4
    /\ FieldDefect(1, toks[1]) = InvalidRange
    /\ FieldDefect(2, toks[2]) = TooManyPerms
    /\ parsed = Err("Couldn't find inode")

----------------------------------------------------------------------------
(* Properties of parse_maps, checked under SpecLoad *)

\* the positions of the lines read that do not parse
BadLines == { i \in 1..Len(consumed) : ~from_str(consumed[i]).ok }

\* C3: if a line read fails to parse, parse_maps returns that line's parse
\* error and no table, however many lines were parsed before it; the
\* entries accumulated are dropped.
C3_FailFast ==
    (pc = "done" /\ BadLines # {}) =>
        /\ BadLines = { Len(consumed) }
        /\ result = Err(from_str(consumed[Len(consumed)]).err)
        /\ DOMAIN result = {"ok", "err"}
        /\ v = <<>>

C3_Witness ==
    /\ pc = "done"
    /\ Len(consumed) = 3
    /\ consumed[3] = LineShortPerms
    /\ result = Err("insufficient perms")

\* C4: when parse_maps succeeds on n lines, the table has n entries and its
\* i-th entry is the result of parsing the i-th line.
C4_TableInFileOrder ==
    (pc = "done" /\ result.ok) =>
        /\ Len(result.val) = Len(consumed)
        /\ \A i \in 1..Len(consumed) :
              /\ from_str(consumed[i]).ok
              /\ result.val[i] = from_str(consumed[i]).val

C4_Witness ==
    /\ pc = "done"
    /\ result.ok
    /\ consumed = <<LineVsyscall, LineLibrary, LineAnonymous>>
    /\ Len(result.val) = 3
    /\ result.val[2].pathname = <<"/", "l", "d", ".", "s", "o">>

====
